---- MODULE Spec2Model ----
(***************************************************************************)
(* reactflow-hooks: accessor hooks for components rendered inside a node   *)
(* of a ReactFlow graph (src/src/index.ts, src/README.md).                 *)
(***************************************************************************)
EXTENDS Integers, Sequences, FiniteSets, TLC

(***************************************************************************)
(* Bounds of the model.                                                    *)
(***************************************************************************)
\* longest edge array the store holds
MaxEdges == 2

\* objects the host allocates for nodes after the initial ones
MaxAllocs == 4

(***************************************************************************)
(* JavaScript values.  A value is a record tagged with its type, so that   *)
(* undefined, null, "" and "a" are four different values and === is plain  *)
(* equality of the tagged records.  An object carries its identity (ref).  *)
(***************************************************************************)
Undefined == [t |-> "undefined"]

Null == [t |-> "null"]

Str(s) == [t |-> "string", s |-> s]

Bool(b) == [t |-> "boolean", b |-> b]

Num(n) == [t |-> "number", n |-> n]

\* a faulty variant of Coalesce: a || b, which also replaces the empty string
CoalesceFalsy(a, b) == IF a.t \in {"undefined", "null"} \/ a = Str("") THEN b ELSE a

\* a ?? b
Coalesce(a, b) == IF a.t \in {"undefined", "null"} THEN b ELSE a

\* (handle ?? null), the normalisation both predicates apply to an edge's handle
HandleOrNull(h) == Coalesce(h, Null)

\* !v
Falsy(v) == v \in {Undefined, Null, Str(""), Bool(FALSE), Num(0)}

\* obj.f, undefined when the object has no such property
Field(obj, f) == IF f \in DOMAIN obj THEN obj[f] ELSE Undefined

(***************************************************************************)
(* The domains inputs are drawn from.                                      *)
(***************************************************************************)
NodeIds == {Str("n1"), Str("n2")}

\* what an edge may carry as sourceHandle / targetHandle (Undefined: absent)
EdgeHandles == {Undefined, Null, Str(""), Str("a")}

\* what a caller may pass as handle id: string | null
QueryHandles == {Null, Str(""), Str("a")}

\* 'other' stands for any value that is neither 'source' nor 'target'
HandleTypes == {"source", "target", "other"}

Edges == [source : NodeIds, target : NodeIds,
          sourceHandle : EdgeHandles, targetHandle : EdgeHandles]

\* the edges the host connects while a component is subscribed
HookEdges == [source : NodeIds, target : NodeIds,
              sourceHandle : {Undefined, Str("a")}, targetHandle : {Undefined, Str("a")}]

\* what the host's NodeIdContext may hold where the component is rendered: null
\* outside a node, else the node's id (n1, or the id "" of no stored node)
ContextIds == {Null, Str(""), Str("n1")}

Labels == {Str("a"), Str("b")}

Positions == {Num(0), Num(1)}

VARIABLES edges, query, nodes, nextRef, ctxId, comp, request

vars == <<edges, query, nodes, nextRef, ctxId, comp, request>>

\* ReactFlowState: what the hooks read of it
StateOf(ns, es) == [nodes |-> ns, edges |-> es]

State == StateOf(nodes, edges)

(***************************************************************************)
(* Array.prototype.some and Array.prototype.find over the outcomes of the  *)
(* callback on each element: scans from the first element.                 *)
(***************************************************************************)
\* a faulty variant of Some for a scan that gives up after the first element
SomeFirstOnly(hits) == Len(hits) > 0 /\ Head(hits)

\* a faulty variant of Some for Array.prototype.every
RECURSIVE Every(_)
Every(hits) ==
    IF Len(hits) = 0 THEN TRUE
    ELSE IF ~Head(hits) THEN FALSE
    ELSE Every(Tail(hits))

RECURSIVE Some(_)
Some(hits) ==
    IF Len(hits) = 0 THEN FALSE
    ELSE IF Head(hits) THEN TRUE
    ELSE Some(Tail(hits))

RECURSIVE Find(_, _)
Find(hits, arr) ==
    IF Len(arr) = 0 THEN Undefined
    ELSE IF Head(hits) THEN Head(arr)
    ELSE Find(Tail(hits), Tail(arr))

(***************************************************************************)
(* The connectivity predicates.                                            *)
(***************************************************************************)
isInputConnected(state, nodeId, inputId) ==
    Some([i \in 1..Len(state.edges) |->
              state.edges[i].target = nodeId
              /\ HandleOrNull(state.edges[i].targetHandle) = inputId])

isOutputConnected(state, nodeId, outputId) ==
    Some([i \in 1..Len(state.edges) |->
              state.edges[i].source = nodeId
              /\ HandleOrNull(state.edges[i].sourceHandle) = outputId])

\* a faulty variant of isHandleConnected: the two sides swapped
isHandleConnectedSwapped(state, nodeId, handleId, handleType) ==
    IF handleType = "source"
    THEN isInputConnected(state, nodeId, handleId)
    ELSE isOutputConnected(state, nodeId, handleId)

isHandleConnected(state, nodeId, handleId, handleType) ==
    IF handleType = "target"
    THEN isInputConnected(state, nodeId, handleId)
    ELSE isOutputConnected(state, nodeId, handleId)

(***************************************************************************)
(* What a hook call does: it throws or returns, after a sequence of calls  *)
(* into the host (trace).                                                  *)
(***************************************************************************)
Throw(err, trace) == [thrown |-> TRUE, err |-> err, trace |-> trace]

Ret(value, trace) == [thrown |-> FALSE, value |-> value, trace |-> trace]

\* r after the host calls of `before`
After(before, r) == [r EXCEPT !.trace = before \o @]

(***************************************************************************)
(* Functions passed as arguments.  A caller's selector reads one property  *)
(* of its argument, and the value it returns remembers the argument it was *)
(* applied to; NoFn is an omitted (undefined) argument.  An equality       *)
(* function is named: "none" (omitted) or "deepEqual".                     *)
(***************************************************************************)
NoFn == [fn |-> "none"]

UserFn(property) == [fn |-> property]

UserSelect(property, arg) ==
    [t |-> "call", fn |-> property, arg |-> arg, ret |-> Field(arg, property)]

\* the JavaScript value behind a selection
Val(v) == IF v.t = "call" THEN v.ret ELSE v

ObjectIs(a, b) == Val(a) = Val(b)

\* an object without the identities of itself and of its data
Strip(v) ==
    IF v.t # "object" THEN v
    ELSE IF "data" \in DOMAIN v
         THEN [id |-> v.id, position |-> v.position, label |-> v.data.label]
         ELSE [label |-> v.label]

DeepEqual(a, b) == Strip(Val(a)) = Strip(Val(b))

Equal(equalityFn, a, b) ==
    IF equalityFn = "deepEqual" THEN DeepEqual(a, b) ELSE ObjectIs(a, b)

\* the arrow function useNodeData hands to useNodeState, closed over selector
DataSelector(selector) == [fn |-> "useNodeData", selector |-> selector]

\* a faulty variant of useNodeDataSelector: the node itself is handed on
useNodeDataSelectorWholeNode(selector, node) ==
    IF selector # NoFn THEN UserSelect(selector.fn, node) ELSE node

\* node => (selector ? selector(node.data) : node.data)
useNodeDataSelector(selector, node) ==
    IF selector # NoFn THEN UserSelect(selector.fn, node.data) ELSE node.data

\* f(arg)
Apply(f, arg) ==
    IF f.fn = "useNodeData" THEN useNodeDataSelector(f.selector, arg)
    ELSE UserSelect(f.fn, arg)

(***************************************************************************)
(* The host: ReactFlow.useNodeId, reactflow.getNode, ReactFlow.useStore,   *)
(* reactflow.deleteElements.                                               *)
(***************************************************************************)
\* reactflow.getNode(id): the stored node of that id, or undefined
getNode(state, id) ==
    Find([i \in 1..Len(state.nodes) |-> state.nodes[i].id = id], state.nodes)

\* ReactFlow.useStore(selector, equalityFn) during a render, selection being what
\* the selector does on the current state: the selection, or the value delivered
\* before when equalityFn calls the two equal
useStore(selection, equalityFn, inst) ==
    LET sel == After(<<"useStore">>, selection)
    IN  IF sel.thrown THEN sel
        ELSE IF equalityFn # "none" /\ inst.hasValue /\ Equal(equalityFn, inst.value, sel.value)
             THEN Ret(inst.value, sel.trace)
             ELSE sel

\* reactflow.deleteElements(request): the named nodes leave the store, and the
\* edges attached to them
DeletedIds(req) == {req.nodes[i].id : i \in 1..Len(req.nodes)}

deleteElementsNodes(ns, req) == SelectSeq(ns, LAMBDA n : n.id \notin DeletedIds(req))

deleteElementsEdges(es, req) ==
    SelectSeq(es, LAMBDA e : e.source \notin DeletedIds(req) /\ e.target \notin DeletedIds(req))

(***************************************************************************)
(* The hooks.                                                              *)
(***************************************************************************)
\* a faulty variant of useNodeId: if (!nodeId) throw
useNodeIdFalsy(hostId) ==
    IF Falsy(hostId)
    THEN Throw("NodeIdNull", <<"useNodeId">>)
    ELSE Ret(hostId, <<"useNodeId">>)

useNodeId(hostId) ==
    LET nodeId == hostId
    IN  IF nodeId = Null
        THEN Throw("NodeIdNull", <<"useNodeId">>)
        ELSE Ret(nodeId, <<"useNodeId">>)

\* a faulty variant of useNode: no check of what getNode returned
useNodeUnchecked(hostId, state) ==
    LET nodeId == After(<<"useReactFlow">>, useNodeId(hostId))
    IN  IF nodeId.thrown THEN nodeId
        ELSE Ret(getNode(state, nodeId.value), nodeId.trace \o <<"getNode">>)

useNode(hostId, state) ==
    LET nodeId == After(<<"useReactFlow">>, useNodeId(hostId))
    IN  IF nodeId.thrown THEN nodeId
        ELSE LET node == getNode(state, nodeId.value)
             IN  IF Falsy(node)
                 THEN Throw("NodeNotFound", nodeId.trace \o <<"getNode">>)
                 ELSE Ret(node, nodeId.trace \o <<"getNode">>)

\* the selector useNodeState hands to useStore, applied to a state
useNodeStateSelector(state, nodeId, selector) ==
    LET node == Find([i \in 1..Len(state.nodes) |-> state.nodes[i].id = nodeId], state.nodes)
    IN  IF Falsy(node)
        THEN Throw("NodeNotFound", <<"getNodes">>)
        ELSE Ret(IF selector # NoFn THEN Apply(selector, node) ELSE node, <<"getNodes">>)

\* a faulty variant of useNodeState: equalityFn is not handed to useStore
useNodeStateNoEqualityFn(hostId, state, selector, equalityFn, inst) ==
    LET nodeId == useNodeId(hostId)
    IN  IF nodeId.thrown THEN nodeId
        ELSE After(nodeId.trace,
                   useStore(useNodeStateSelector(state, nodeId.value, selector), "none", inst))

useNodeState(hostId, state, selector, equalityFn, inst) ==
    LET nodeId == useNodeId(hostId)
    IN  IF nodeId.thrown THEN nodeId
        ELSE After(nodeId.trace,
                   useStore(useNodeStateSelector(state, nodeId.value, selector),
                            equalityFn, inst))

useNodeData(hostId, state, selector, equalityFn, inst) ==
    useNodeState(hostId, state, DataSelector(selector), equalityFn, inst)

useIsInputConnected(hostId, state, inputId, inst) ==
    LET nodeId == useNodeId(hostId)
    IN  IF nodeId.thrown THEN nodeId
        ELSE After(nodeId.trace,
                   useStore(Ret(Bool(isInputConnected(state, nodeId.value, inputId)),
                                <<"edges">>),
                            "none", inst))

useIsOutputConnected(hostId, state, outputId, inst) ==
    LET nodeId == useNodeId(hostId)
    IN  IF nodeId.thrown THEN nodeId
        ELSE After(nodeId.trace,
                   useStore(Ret(Bool(isOutputConnected(state, nodeId.value, outputId)),
                                <<"edges">>),
                            "none", inst))

\* a faulty variant of useIsHandleConnected: handleType is not handed on
useIsHandleConnectedAnyType(hostId, state, handleId, handleType, inst) ==
    useIsOutputConnected(hostId, state, handleId, inst)

useIsHandleConnected(hostId, state, handleId, handleType, inst) ==
    LET nodeId == useNodeId(hostId)
    IN  IF nodeId.thrown THEN nodeId
        ELSE After(nodeId.trace,
                   useStore(Ret(Bool(isHandleConnected(state, nodeId.value, handleId,
                                                       handleType)),
                                <<"edges">>),
                            "none", inst))

\* a faulty variant of useNodeActions: the host's id, not checked
useNodeActionsUnchecked(hostId) ==
    Ret([deleteNode |-> [nodes |-> <<[id |-> hostId]>>]], <<"useReactFlow", "useNodeId">>)

\* useNodeActions(): the callbacks of the node; deleteNode is given as the
\* request it sends to reactflow.deleteElements
useNodeActions(hostId) ==
    LET id == After(<<"useReactFlow">>, useNodeId(hostId))
    IN  IF id.thrown THEN id
        ELSE Ret([deleteNode |-> [nodes |-> <<[id |-> id.value]>>]], id.trace)

(***************************************************************************)
(* A component rendered by the host where the NodeIdContext holds ctxId.   *)
(* It calls one hook in its render and keeps what the hook delivered.      *)
(***************************************************************************)
Config(hook, sel, eq, handleId, handleType) ==
    [hook |-> hook, sel |-> sel, eq |-> eq, handleId |-> handleId, handleType |-> handleType]

NodeConfigs ==
    {Config(h, NoFn, "none", Undefined, "none") : h \in {"useNodeId", "useNode"}}
    \cup {Config("useNodeState", s, e, Undefined, "none") :
              s \in {NoFn, UserFn("position"), UserFn("data")}, e \in {"none", "deepEqual"}}
    \cup {Config("useNodeData", s, e, Undefined, "none") :
              s \in {NoFn, UserFn("label")}, e \in {"none", "deepEqual"}}

ConnectedConfigs ==
    {Config(h, NoFn, "none", Str("a"), "none") :
         h \in {"useIsInputConnected", "useIsOutputConnected"}}
    \cup {Config("useIsHandleConnected", NoFn, "none", Str("a"), d) : d \in HandleTypes}

NoComp ==
    [status |-> "unmounted", hook |-> "none", sel |-> NoFn, eq |-> "none",
     handleId |-> Undefined, handleType |-> "none",
     value |-> Undefined, err |-> "none", trace |-> <<>>, dirty |-> FALSE]

NoInst == [hasValue |-> FALSE]

InstOf(c) == [hasValue |-> TRUE, value |-> c.value]

\* the component's hook, called in a render
CallHook(c, hostId, state, inst) ==
    CASE c.hook = "useNodeId" -> useNodeId(hostId)
      [] c.hook = "useNode" -> useNode(hostId, state)
      [] c.hook = "useNodeState" -> useNodeState(hostId, state, c.sel, c.eq, inst)
      [] c.hook = "useNodeData" -> useNodeData(hostId, state, c.sel, c.eq, inst)
      [] c.hook = "useIsInputConnected" -> useIsInputConnected(hostId, state, c.handleId, inst)
      [] c.hook = "useIsOutputConnected" -> useIsOutputConnected(hostId, state, c.handleId, inst)
      [] c.hook = "useIsHandleConnected" ->
            useIsHandleConnected(hostId, state, c.handleId, c.handleType, inst)

\* the component after a render in which its hook did r
Rendered(c, r) ==
    IF r.thrown
    THEN [c EXCEPT !.status = "crashed", !.value = Undefined, !.err = r.err,
                   !.trace = r.trace, !.dirty = FALSE]
    ELSE [c EXCEPT !.status = "mounted", !.value = r.value, !.err = "none",
                   !.trace = r.trace, !.dirty = FALSE]

Subscribed(c) ==
    c.status = "mounted" /\ \E i \in 1..Len(c.trace) : c.trace[i] = "useStore"

\* the host's store listener of a subscribed component: a re-render is scheduled
\* when the selection of the new state is not the value delivered, or throws
StoreChanged(c, hostId, state) ==
    IF Subscribed(c)
    THEN LET r == CallHook(c, hostId, state, InstOf(c))
         IN  [c EXCEPT !.dirty = @ \/ r.thrown \/ ~ObjectIs(r.value, c.value)]
    ELSE c

NoQuery == [fn |-> "none"]

NoRequest == [sent |-> FALSE]

\* first render of a component calling one of the hooks
Mount(configs) ==
    /\ comp.status = "unmounted"
    /\ \E cfg \in configs :
         LET c == [NoComp EXCEPT !.hook = cfg.hook, !.sel = cfg.sel, !.eq = cfg.eq,
                                 !.handleId = cfg.handleId, !.handleType = cfg.handleType]
         IN  comp' = Rendered(c, CallHook(c, ctxId, State, NoInst))
    /\ UNCHANGED <<edges, query, nodes, nextRef, ctxId, request>>

\* a later render, scheduled by the store listener or by the host's own reasons
Render ==
    /\ comp.status = "mounted"
    /\ comp' = Rendered(comp, CallHook(comp, ctxId, State, InstOf(comp)))
    /\ UNCHANGED <<edges, query, nodes, nextRef, ctxId, request>>

(***************************************************************************)
(* The store's node array, changed by the host.  Every change makes new    *)
(* objects and calls the store listeners.                                  *)
(***************************************************************************)
Node(id, ref, dataRef, label, position) ==
    [t |-> "object", ref |-> ref, id |-> id, position |-> position,
     data |-> [t |-> "object", ref |-> dataRef, label |-> label]]

Index(id) == CHOOSE i \in 1..Len(nodes) : nodes[i].id = id

Present(id) == \E i \in 1..Len(nodes) : nodes[i].id = id

CanAlloc(k) == nextRef + k - 1 <= 4 + MaxAllocs

StoreNodes(ns) ==
    /\ nodes' = ns
    /\ comp' = StoreChanged(comp, ctxId, StateOf(ns, edges))
    /\ request' = NoRequest
    /\ UNCHANGED <<edges, query, ctxId>>

\* the node gets a new data object (a new node object with it)
SetNodeData ==
    /\ CanAlloc(2)
    /\ \E id \in NodeIds, label \in Labels :
         /\ Present(id)
         /\ StoreNodes([nodes EXCEPT ![Index(id)] =
                           Node(id, nextRef, nextRef + 1, label, @.position)])
    /\ nextRef' = nextRef + 2

\* the node is dragged: a new node object with the same data object
MoveNode ==
    /\ CanAlloc(1)
    /\ \E id \in NodeIds, position \in Positions :
         /\ Present(id)
         /\ nodes[Index(id)].position # position
         /\ StoreNodes([nodes EXCEPT ![Index(id)] =
                           [@ EXCEPT !.ref = nextRef, !.position = position]])
    /\ nextRef' = nextRef + 1

AddNode ==
    /\ CanAlloc(2)
    /\ \E id \in NodeIds :
         /\ ~Present(id)
         /\ StoreNodes(Append(nodes, Node(id, nextRef, nextRef + 1, Str("a"), Num(0))))
    /\ nextRef' = nextRef + 2

\* the user deletes a node of the graph
RemoveNode ==
    /\ \E id \in NodeIds :
         /\ Present(id)
         /\ LET req == [nodes |-> <<[id |-> id]>>]
                ns == deleteElementsNodes(nodes, req)
                es == deleteElementsEdges(edges, req)
            IN  /\ nodes' = ns
                /\ edges' = es
                /\ comp' = StoreChanged(comp, ctxId, StateOf(ns, es))
    /\ request' = NoRequest
    /\ UNCHANGED <<query, nextRef, ctxId>>

\* deleteNode of useNodeActions(), called by the component's node
DeleteNode ==
    LET actions == useNodeActions(ctxId)
    IN  /\ ~actions.thrown
        /\ LET req == actions.value.deleteNode
               ns == deleteElementsNodes(nodes, req)
               es == deleteElementsEdges(edges, req)
           IN  /\ nodes' = ns
               /\ edges' = es
               /\ comp' = StoreChanged(comp, ctxId, StateOf(ns, es))
               /\ request' = [sent |-> TRUE, req |-> req, before |-> nodes]
        /\ UNCHANGED <<query, nextRef, ctxId>>

(***************************************************************************)
(* The store's edge array, changed by the host.                            *)
(***************************************************************************)
StoreEdges(es) ==
    /\ edges' = es
    /\ comp' = StoreChanged(comp, ctxId, StateOf(nodes, es))
    /\ UNCHANGED <<query, nodes, nextRef, ctxId, request>>

\* the host appends an edge (onConnect / addEdge)
AddEdge(pool) ==
    /\ query = NoQuery
    /\ Len(edges) < MaxEdges
    /\ \E e \in pool : StoreEdges(Append(edges, e))

\* the host removes an edge
RemoveEdge ==
    /\ query = NoQuery
    /\ \E i \in 1..Len(edges) :
         StoreEdges(SubSeq(edges, 1, i - 1) \o SubSeq(edges, i + 1, Len(edges)))

\* a caller applies the predicates to the store's state: isInputConnected and
\* isOutputConnected on (n, h), isHandleConnected on (n, h, d) for each d
Query ==
    /\ query = NoQuery
    /\ \E n \in NodeIds, h \in QueryHandles :
         query' = [fn |-> "connected", nodeId |-> n, handleId |-> h,
                   input |-> isInputConnected(State, n, h),
                   output |-> isOutputConnected(State, n, h),
                   handle |-> [d \in HandleTypes |-> isHandleConnected(State, n, h, d)]]
    /\ UNCHANGED <<edges, nodes, nextRef, ctxId, comp, request>>

\* the caller is done with the result
Discard ==
    /\ query # NoQuery
    /\ query' = NoQuery
    /\ UNCHANGED <<edges, nodes, nextRef, ctxId, comp, request>>

(***************************************************************************)
(* The specifications.                                                     *)
(***************************************************************************)
InitNodes ==
    << Node(Str("n1"), 1, 2, Str("a"), Num(0)), Node(Str("n2"), 3, 4, Str("a"), Num(0)) >>

InitEdge ==
    [source |-> Str("n2"), target |-> Str("n1"),
     sourceHandle |-> Undefined, targetHandle |-> Str("a")]

\* a component of a node, the node array changing under it
Init ==
    /\ edges = <<InitEdge>>
    /\ query = NoQuery
    /\ nodes = InitNodes
    /\ nextRef = 5
    /\ ctxId \in ContextIds
    /\ comp = NoComp
    /\ request = NoRequest

Next ==
    \/ Mount(NodeConfigs \cup ConnectedConfigs)
    \/ Render
    \/ SetNodeData
    \/ MoveNode
    \/ AddNode
    \/ RemoveNode
    \/ DeleteNode

Spec == Init /\ [][Next]_vars

\* a component subscribed to the connectivity of a handle, the edge array
\* changing under it
SubInit ==
    /\ edges = <<>>
    /\ query = NoQuery
    /\ nodes = InitNodes
    /\ nextRef = 5
    /\ ctxId \in ContextIds
    /\ comp = NoComp
    /\ request = NoRequest

SubNext ==
    \/ Mount(ConnectedConfigs)
    \/ Render
    \/ AddEdge(HookEdges)
    \/ RemoveEdge

SubSpec == SubInit /\ [][SubNext]_vars

\* the predicates applied to edge arrays
ConnInit ==
    /\ edges = <<>>
    /\ query = NoQuery
    /\ nodes = InitNodes
    /\ nextRef = 5
    /\ ctxId = Str("n1")
    /\ comp = NoComp
    /\ request = NoRequest

ConnNext == AddEdge(Edges) \/ RemoveEdge \/ Query \/ Discard

ConnSpec == ConnInit /\ [][ConnNext]_vars

(***************************************************************************)
(* Claims about the connectivity predicates (checked under ConnSpec).      *)
(***************************************************************************)
Queried == query.fn = "connected"

\* the endpoint of edge e on side d, an absent handle read as null
EndNode(e, d) == IF d = "target" THEN e.target ELSE e.source

EndHandle(e, d) ==
    LET h == IF d = "target" THEN e.targetHandle ELSE e.sourceHandle
    IN  IF h = Undefined THEN Null ELSE h

Attached(n, h, d) ==
    \E i \in 1..Len(edges) : EndNode(edges[i], d) = n /\ EndHandle(edges[i], d) = h

\* C1: each predicate returns true iff some edge of the collection has, on the
\* queried side, endpoint node n and endpoint handle h (absent read as null).
C1_TrueIffSomeEdgeMatches ==
    Queried =>
        /\ query.input = Attached(query.nodeId, query.handleId, "target")
        /\ query.output = Attached(query.nodeId, query.handleId, "source")
        /\ query.handle["target"] = Attached(query.nodeId, query.handleId, "target")
        /\ query.handle["source"] = Attached(query.nodeId, query.handleId, "source")

\* the match is found behind a first edge that does not match
C1_Witness ==
    /\ Queried /\ Len(edges) = 2 /\ query.input /\ ~query.output
    /\ ~(edges[1].target = query.nodeId)
    /\ query.handleId = Str("a")

\* the raw handle field of edge e on side d
RawHandle(e, d) == IF d = "target" THEN e.targetHandle ELSE e.sourceHandle

SideResult(d) == IF d = "target" THEN query.input ELSE query.output

OnSide(n, d) == {i \in 1..Len(edges) : EndNode(edges[i], d) = n}

\* C2: a null query is true exactly when some edge attached to n on that side has
\* its handle absent or null; an explicit string handle (the empty string too)
\* never satisfies a null query, and an edge without explicit handle never
\* satisfies a query for a string handle.
C2_NullMatchesOnlyNoHandle ==
    Queried =>
        \A d \in {"source", "target"} :
            /\ query.handleId = Null =>
                 SideResult(d) =
                     (\E i \in OnSide(query.nodeId, d) :
                          RawHandle(edges[i], d) \in {Undefined, Null})
            /\ (query.handleId = Null
                  /\ \A i \in OnSide(query.nodeId, d) : RawHandle(edges[i], d).t = "string")
                 => ~SideResult(d)
            /\ (query.handleId.t = "string"
                  /\ \A i \in OnSide(query.nodeId, d) :
                         RawHandle(edges[i], d) \in {Undefined, Null})
                 => ~SideResult(d)

\* a null query for a node whose only edges on that side carry "" and "a"
C2_Witness ==
    /\ Queried /\ query.handleId = Null /\ Len(edges) = 2
    /\ edges[1].target = query.nodeId /\ edges[1].targetHandle = Str("")
    /\ edges[2].target = query.nodeId /\ edges[2].targetHandle = Str("a")
    /\ ~query.input
    /\ query.output /\ \E i \in 1..2 : edges[i].sourceHandle = Undefined

\* C8: on an empty edge collection every predicate returns false.
C8_EmptyIsFalse ==
    (Queried /\ edges = <<>>) =>
        /\ ~query.input
        /\ ~query.output
        /\ \A d \in HandleTypes : ~query.handle[d]

C8_Witness == Queried /\ edges = <<>> /\ query.handleId = Null

\* C10: isHandleConnected with 'target' is isInputConnected, with any other
\* value isOutputConnected; a true answer on one side always has an edge with
\* that endpoint on that very side.
C10_DispatchAndIndependence ==
    Queried =>
        /\ query.handle["target"] = query.input
        /\ query.handle["source"] = query.output
        /\ query.handle["other"] = query.output
        /\ query.handle["source"] => Attached(query.nodeId, query.handleId, "source")
        /\ query.handle["target"] => Attached(query.nodeId, query.handleId, "target")

\* (n, h) is the target of an edge and the source of none
C10_Witness ==
    /\ Queried /\ Len(edges) = 1
    /\ edges[1].source = query.nodeId /\ edges[1].target = query.nodeId
    /\ edges[1].targetHandle = query.handleId /\ edges[1].sourceHandle # query.handleId
    /\ query.handle["target"] /\ ~query.handle["source"] /\ ~query.handle["other"]

(***************************************************************************)
(* Claims about the hooks of a component (checked under Spec and SubSpec). *)
(***************************************************************************)
\* the stored nodes of the component's node id (at most one)
NodesOfContext(ns) == {ns[i] : i \in {j \in 1..Len(ns) : ns[j].id = ctxId}}

HasNode(ns) == NodesOfContext(ns) # {}

TheNode(ns) == CHOOSE n \in NodesOfContext(ns) : TRUE

NodeHooks == {"useNode", "useNodeState", "useNodeData"}

\* host calls that read the store
StoreReads == {"getNode", "getNodes", "useStore", "edges"}

\* a step in which the component rendered
RenderStep == nodes' = nodes /\ edges' = edges /\ comp' # comp

\* C3: useNodeId throws exactly when the host reports no node id and otherwise
\* returns the host's id unchanged; every hook called outside a node throws that
\* error, and has not read the store.
C3_ThrowsExactlyOutsideNode ==
    comp.status # "unmounted" =>
        /\ (comp.status = "crashed" /\ comp.err = "NodeIdNull") <=> (ctxId = Null)
        /\ (comp.hook = "useNodeId" /\ ctxId # Null) =>
               (comp.status = "mounted" /\ comp.value = ctxId)
        /\ ctxId = Null =>
               (comp.value = Undefined
                /\ \A i \in 1..Len(comp.trace) : comp.trace[i] \notin StoreReads)

\* a subscribing hook called outside a node
C3_Witness ==
    /\ ctxId = Null /\ comp.hook = "useNodeState"
    /\ comp.status = "crashed" /\ comp.err = "NodeIdNull"

\* C4: a render of useNode, useNodeState or useNodeData inside a node throws
\* 'not found' and delivers nothing (no selection either) when the store holds
\* no node of the active id, and does not throw when it holds one.
C4_NotFoundThrows ==
    [][(RenderStep /\ comp'.hook \in NodeHooks /\ ctxId # Null) =>
           IF HasNode(nodes)
           THEN comp'.status = "mounted"
           ELSE /\ comp'.status = "crashed"
                /\ comp'.err = "NodeNotFound"
                /\ comp'.value = Undefined]_vars

\* useNodeState with a selector, its node deleted from the store
C4_Witness ==
    /\ ctxId = Str("n1") /\ ~HasNode(nodes)
    /\ comp.hook = "useNodeState" /\ comp.sel = UserFn("data")
    /\ comp.status = "crashed" /\ comp.err = "NodeNotFound"

\* what useNode / useNodeState select of the stored node
Selection(c, ns) ==
    IF c.sel = NoFn THEN TheNode(ns) ELSE TheNode(ns)[c.sel.fn]

\* C6: a change of the node array leaves a useNode component as it is (its
\* value stays the node of its last render), and schedules a re-render of a
\* useNodeState component exactly when the new selection is not equal, under
\* equalityFn (Object.is when omitted), to the value delivered; a render
\* delivers the node (useNode) or the selection (useNodeState) of the store.
C6_SubscribesToNode ==
    [][/\ (nodes' # nodes /\ comp.status = "mounted" /\ comp.hook = "useNode") =>
              comp' = comp
       /\ (nodes' # nodes /\ comp.status = "mounted" /\ comp.hook = "useNodeState") =>
              /\ comp'.status = "mounted" /\ comp'.value = comp.value
              /\ comp'.dirty =
                     (\/ comp.dirty
                      \/ ~HasNode(nodes')
                      \/ ~Equal(comp.eq, comp.value, Selection(comp, nodes')))
       /\ (RenderStep /\ comp'.status = "mounted" /\ comp'.hook = "useNode") =>
              comp'.value = TheNode(nodes)
       /\ (RenderStep /\ comp'.status = "mounted" /\ comp'.hook = "useNodeState") =>
              /\ ~comp'.dirty
              /\ Equal(comp'.eq, comp'.value, Selection(comp', nodes))
              /\ (\/ comp.status = "unmounted"
                  \/ ~Equal(comp.eq, comp.value, Selection(comp, nodes)))
                     => Val(comp'.value) = Selection(comp', nodes)]_vars

\* a new node object that equalityFn calls equal to the one delivered: no
\* re-render is scheduled, the component keeps the object it has
C6_Witness ==
    /\ comp.hook = "useNodeState" /\ comp.sel = NoFn /\ comp.eq = "deepEqual"
    /\ comp.status = "mounted" /\ ~comp.dirty
    /\ HasNode(nodes) /\ comp.value # TheNode(nodes)

C9_SubscribesToData ==
    (comp.hook = "useNodeData" /\ comp.status = "mounted" /\ ~comp.dirty) =>
        /\ HasNode(nodes)
        /\ LET data == TheNode(nodes).data
           IN  IF comp.sel = NoFn
               THEN /\ comp.value.t = "object"
                    /\ DOMAIN comp.value = DOMAIN data
                    /\ Equal(comp.eq, comp.value, data)
                    /\ comp.eq = "none" => comp.value = data
               ELSE /\ comp.value.t = "call"
                    /\ comp.value.fn = comp.sel.fn
                    /\ DOMAIN comp.value.arg = DOMAIN data
                    /\ comp.value.ret = comp.value.arg[comp.sel.fn]
                    /\ comp.value.ret = data[comp.sel.fn]

\* the selector applied to a data object the node got after the first render
C9_Witness ==
    /\ comp.hook = "useNodeData" /\ comp.sel = UserFn("label")
    /\ comp.status = "mounted" /\ ~comp.dirty
    /\ comp.value.ret = Str("b") /\ comp.value.arg = TheNode(nodes).data

\* the side a connectivity hook asks about
Side(c) ==
    IF c.hook = "useIsInputConnected"
         \/ (c.hook = "useIsHandleConnected" /\ c.handleType = "target")
    THEN "target" ELSE "source"

Connected(es, c) ==
    \E i \in 1..Len(es) :
        EndNode(es[i], Side(c)) = ctxId /\ EndHandle(es[i], Side(c)) = c.handleId

\* C5: once no re-render is pending the boolean delivered by a connectivity
\* hook is the predicate on the store's edges; a change of the edges schedules
\* a re-render exactly when it makes the predicate differ from the boolean
\* delivered.
C5_RerendersOnConnectionChange ==
    [][/\ (comp'.status = "mounted" /\ ~comp'.dirty) =>
              comp'.value = Bool(Connected(edges', comp'))
       /\ (edges' # edges /\ comp.status = "mounted") =>
              /\ comp'.status = "mounted" /\ comp'.value = comp.value
              /\ comp'.dirty =
                     (comp.dirty \/ comp.value # Bool(Connected(edges', comp)))]_vars

\* a second edge at a handle already connected: delivered true, nothing pending
C5_Witness ==
    /\ comp.hook = "useIsHandleConnected" /\ comp.handleType = "target"
    /\ comp.status = "mounted" /\ ~comp.dirty /\ comp.value = Bool(TRUE)
    /\ Len(edges) = 2
    /\ \A i \in 1..2 : edges[i].target = ctxId /\ edges[i].targetHandle = comp.handleId

====
